---- MODULE Spec2Model ----
(***************************************************************************)
(* Portal GEOCUBA: the Express servers of the repository.                  *)
(*                                                                         *)
(*  - the per-IP connection trackers of server.js and middleware.js        *)
(*    (server.on('connection') / socket.on('close')), specification        *)
(*    SpecTracker;                                                         *)
(*  - the middleware chain and the route handlers of server.js, of         *)
(*    middleware.js and of the second program kept in server.js            *)
(*    (cors, express.json and the routes only), specification Spec;        *)
(*  - the shutdown of server.js on SIGTERM and SIGINT, specification       *)
(*    SpecShutdown;                                                        *)
(*  - the page preloader of README.md, specification SpecPreloader.        *)
(*                                                                         *)
(* The numeric thresholds of the source (50 and 10 connections per IP, a   *)
(* queue of 400 timestamps, 500 and 100 requests per window) are compared  *)
(* with counters by > only; the handlers are modelled with the thresholds  *)
(* as parameters and checked for small values of them.                     *)
(***************************************************************************)
EXTENDS Integers, Sequences, FiniteSets, TLC

VARIABLES
    now,                 \* Date.now(), in ms
    sock,                \* every transport connection of the run
    nextSock,            \* the next connection to arrive
    activeConnections,   \* server.js: Map ip -> count
    requestQueue,        \* server.js: Map ip -> array of timestamps
    mwActiveConnections, \* middleware.js: Map ip -> count
    app,                 \* the program that runs: server.js or middleware.js
    req,                 \* the request being processed
    pc,                  \* where the request stands in the middleware chain
    ran,                 \* the gates and handlers that ran for the request
    hdrs,                \* headers set on the response so far
    sent,                \* the responses written to the client
    timedout,            \* req.timedout
    timer,               \* the timer of connect-timeout
    dbCalls,             \* the pool.query calls of the request
    local,               \* the handler's local variables
    hits,                \* the rate limiter's store: Map ip -> count
    seen,                \* requests that reached the limiter in this window
    unhandled,           \* a promise of a handler was rejected
    prev,                \* the answer to the request before, when this one repeats it
    listening,           \* server.js: the HTTP server accepts connections
    conn,                \* the client connections of the HTTP server
    handlers,             \* the route handlers running for each connection
    closeCallbacks,      \* callbacks given to server.close() and not yet run
    serverClosed,        \* the server emitted 'close'
    poolState,           \* the pg pool: open, ending (end() called) or ended
    exited,              \* process.exit(0) was called
    lateQuery,           \* a handler called pool.query() after pool.end()
    signals,             \* SIGTERM and SIGINT signals delivered
    clock,               \* ms since the preloader script ran
    scriptRan,           \* the preloader script has run
    domReady,            \* DOMContentLoaded fired
    listener,            \* the script waits for DOMContentLoaded
    preloaderContainer,  \* the script's variable: undefined, element or null
    attached,            \* the container has a parentNode
    opacity,             \* the container's style.opacity
    visibility,          \* document.documentElement.style.visibility
    maxTimeout,          \* the 10-second timer
    loadFired,           \* window 'load' fired
    loadAt,              \* when it fired
    hideTimers,          \* deadlines of setTimeout(hidePreloader, 200)
    fadeTimers,          \* deadlines of the removal timers
    removals             \* removeChild calls

trackerVars == <<now, sock, nextSock, activeConnections, requestQueue,
                 mwActiveConnections>>

pipeVars == <<app, req, pc, ran, hdrs, sent, timedout, timer, dbCalls, local,
              hits, seen, unhandled, prev>>

shutdownVars == <<listening, conn, handlers, closeCallbacks, serverClosed,
                  poolState, exited, lateQuery, signals>>

preloaderVars == <<clock, scriptRan, domReady, listener, preloaderContainer,
                   attached, opacity, visibility, maxTimeout, loadFired,
                   loadAt, hideTimers, fadeTimers, removals>>

vars == <<trackerVars, pipeVars, shutdownVars, preloaderVars>>

----------------------------------------------------------------------------
(* Bounds of the model *)

NumSockets == 4     \* transport connections in one run
MaxNow == 60001     \* the clock stops here
ExtraHits == 2      \* requests followed beyond the rate limiter's ceiling
MaxConns == 2       \* client connections followed through a shutdown
MaxSignals == 2     \* SIGTERM and SIGINT signals in one run
MaxClock == 11000   \* the page's clock stops here
ClockStep == 250    \* the longest step of the page's clock

(* Thresholds of the source, checked for small values *)
MAX_CONNECTIONS_PER_IP == 2     \* server.js:389 sets 50
MAX_QUEUE_SIZE == 3             \* server.js:390 sets 400
MW_MAX_CONNECTIONS == 1         \* middleware.js:279 compares with 10
SERVER_RATE_MAX == 2            \* server.js:91 sets 500
MW_RATE_MAX == 1                \* middleware.js:30 sets 100

(* Program constants *)
QUEUE_WINDOW_MS == 60000        \* server.js:413
MAX_LAG == 100                  \* server.js:75
BODY_LIMIT == 1024              \* server.js:85, '1kb'
DEFAULT_BODY_LIMIT == 102400    \* server.js:462, express.json() default '100kb'
MAX_TIMEOUT_MS == 10000         \* README.md:391
FADE_MS == 500                  \* README.md:387
LOAD_DELAY_MS == 200            \* README.md:397

Sockets == 1..NumSockets
Undefined == "undefined"
RemoteAddresses == {"10.0.0.1", Undefined}
TickSteps == {60000, 60001}

----------------------------------------------------------------------------
(* JavaScript Map *)

MapHas(m, k) == k \in DOMAIN m
MapSet(m, k, v) == [x \in DOMAIN m \cup {k} |-> IF x = k THEN v ELSE m[x]]
MapDelete(m, k) == [x \in DOMAIN m \ {k} |-> m[x]]
EmptyMap == [x \in {} |-> 0]

----------------------------------------------------------------------------
(* server.js: server.on('connection') *)

\* const ip = socket.remoteAddress || '0.0.0.0'
ServerIp(addr) == IF addr = Undefined THEN "0.0.0.0" ELSE addr

\* activeConnections.set(ip, (activeConnections.get(ip) || 0) + 1)
CountUp(m, ip) == MapSet(m, ip, (IF MapHas(m, ip) THEN m[ip] ELSE 0) + 1)

\* if (!requestQueue.has(ip)) requestQueue.set(ip, []); queue.push(Date.now())
Pushed(q, ip, t) == Append(IF MapHas(q, ip) THEN q[ip] ELSE <<>>, t)

\* while (queue.length > 0 && queue[0] < now - 60000) queue.shift()
RECURSIVE Pruned(_, _)
Pruned(queue, t) ==
    IF Len(queue) > 0 /\ queue[1] < t - QUEUE_WINDOW_MS
    THEN Pruned(Tail(queue), t)
    ELSE queue

OverConnectionsLate(count) == count > MAX_CONNECTIONS_PER_IP + 1

\* activeConnections.get(ip) > MAX_CONNECTIONS_PER_IP
OverConnections(count) == count > MAX_CONNECTIONS_PER_IP

\* queue.length > MAX_QUEUE_SIZE, tested before the cleanup loop
OverQueue(queue) == Len(queue) > MAX_QUEUE_SIZE

MwOverConnectionsLate(count) == count > MW_MAX_CONNECTIONS + 1

\* middleware.js: if (activeConnections.get(ip) > 10)
MwOverConnections(count) == count > MW_MAX_CONNECTIONS

CountDownEarlyDelete(m, ip) ==
    IF m[ip] <= 2 THEN MapDelete(m, ip) ELSE MapSet(m, ip, m[ip] - 1)

\* server.js close handler: delete when count <= 1, else store count - 1
CountDown(m, ip) ==
    IF m[ip] <= 1 THEN MapDelete(m, ip) ELSE MapSet(m, ip, m[ip] - 1)

MwCountDownNoDelete(m, ip) == MapSet(m, ip, m[ip] - 1)

\* middleware.js close handler: store count - 1, then delete when it is 0
MwCountDown(m, ip) ==
    LET m1 == MapSet(m, ip, m[ip] - 1)
    IN  IF m1[ip] = 0 THEN MapDelete(m1, ip) ELSE m1

IdleSocket == [st |-> "idle", addr |-> Undefined, at |-> 0,
               destroyed |-> FALSE, overCap |-> FALSE, overQueue |-> FALSE,
               mwDestroyed |-> FALSE, mwOverCap |-> FALSE,
               responded |-> FALSE, mwResponded |-> FALSE]

TrackerInit ==
    /\ now = 0
    /\ sock = [s \in Sockets |-> IdleSocket]
    /\ nextSock = 1
    /\ activeConnections = EmptyMap
    /\ requestQueue = EmptyMap
    /\ mwActiveConnections = EmptyMap

\* A connection arrives: the 'connection' handlers of both servers
Connect(addr) ==
    /\ nextSock <= NumSockets
    /\ LET s == nextSock
           ip == ServerIp(addr)
           counts == CountUp(activeConnections, ip)
           queue == Pushed(requestQueue, ip, now)
           mwCounts == CountUp(mwActiveConnections, addr)
       IN  /\ activeConnections' = counts
           /\ requestQueue' = MapSet(requestQueue, ip, Pruned(queue, now))
           /\ mwActiveConnections' = mwCounts
           /\ sock' = [sock EXCEPT ![s] =
                  [st |-> "open", addr |-> addr, at |-> now,
                   destroyed |-> OverConnections(counts[ip]) \/ OverQueue(queue),
                   overCap |-> counts[ip] > MAX_CONNECTIONS_PER_IP,
                   overQueue |-> Len(queue) > MAX_QUEUE_SIZE,
                   mwDestroyed |-> MwOverConnections(mwCounts[addr]),
                   mwOverCap |-> mwCounts[addr] > MW_MAX_CONNECTIONS,
                   responded |-> FALSE, mwResponded |-> FALSE]]
    /\ nextSock' = nextSock + 1
    /\ UNCHANGED now
    /\ UNCHANGED <<pipeVars, shutdownVars, preloaderVars>>

HasCloseHandlerUnlessDestroyed(destroyed) == ~destroyed

\* socket.on('close', ...) is registered after the destroy() call, for every
\* socket, also for one the handler has just destroyed
HasCloseHandler(destroyed) == TRUE

\* The socket's 'close' event: the close handlers of both servers
Close(s) ==
    /\ sock[s].st = "open"
    /\ activeConnections' =
          IF HasCloseHandler(sock[s].destroyed)
          THEN CountDown(activeConnections, ServerIp(sock[s].addr))
          ELSE activeConnections
    /\ mwActiveConnections' =
          IF HasCloseHandler(sock[s].mwDestroyed)
          THEN MwCountDown(mwActiveConnections, sock[s].addr)
          ELSE mwActiveConnections
    /\ sock' = [sock EXCEPT ![s].st = "closed"]
    /\ UNCHANGED <<now, nextSock, requestQueue>>
    /\ UNCHANGED <<pipeVars, shutdownVars, preloaderVars>>

HttpRequestCounted(s) ==
    /\ sock[s].st = "open"
    /\ ~sock[s].destroyed \/ ~sock[s].mwDestroyed
    /\ sock' = [sock EXCEPT ![s].responded = ~sock[s].destroyed,
                            ![s].mwResponded = ~sock[s].mwDestroyed]
    /\ requestQueue' = MapSet(requestQueue, ServerIp(sock[s].addr),
                              Pushed(requestQueue, ServerIp(sock[s].addr), now))
    /\ UNCHANGED <<now, nextSock, activeConnections, mwActiveConnections>>
    /\ UNCHANGED <<pipeVars, shutdownVars, preloaderVars>>

\* An HTTP request arrives on an open connection: each server answers it
\* unless its 'connection' handler destroyed the socket
HttpRequest(s) ==
    /\ sock[s].st = "open"
    /\ ~sock[s].destroyed \/ ~sock[s].mwDestroyed
    /\ sock' = [sock EXCEPT ![s].responded = ~sock[s].destroyed,
                            ![s].mwResponded = ~sock[s].mwDestroyed]
    /\ UNCHANGED <<now, nextSock, activeConnections, requestQueue,
                   mwActiveConnections>>
    /\ UNCHANGED <<pipeVars, shutdownVars, preloaderVars>>

Tick(d) ==
    /\ now + d <= MaxNow
    /\ now' = now + d
    /\ UNCHANGED <<sock, nextSock, activeConnections, requestQueue,
                   mwActiveConnections>>
    /\ UNCHANGED <<pipeVars, shutdownVars, preloaderVars>>

----------------------------------------------------------------------------
(* Strings *)

StartsWith(s, p) == Len(s) >= Len(p) /\ SubSeq(s, 1, Len(p)) = p
EndsWith(s, p) == Len(s) >= Len(p) /\ SubSeq(s, Len(s) - Len(p) + 1, Len(s)) = p
CharAt(s, i) == SubSeq(s, i, i)
Rest(s, p) == SubSeq(s, Len(p) + 1, Len(s))
Contains(s, c) == \E i \in 1..Len(s) : CharAt(s, i) = c

Whitespace == {" ", "\t", "\n"}

\* String.prototype.trim
RECURSIVE TrimStart(_)
TrimStart(s) ==
    IF Len(s) > 0 /\ CharAt(s, 1) \in Whitespace
    THEN TrimStart(SubSeq(s, 2, Len(s)))
    ELSE s

RECURSIVE TrimEnd(_)
TrimEnd(s) ==
    IF Len(s) > 0 /\ CharAt(s, Len(s)) \in Whitespace
    THEN TrimEnd(SubSeq(s, 1, Len(s) - 1))
    ELSE s

Trim(s) == TrimEnd(TrimStart(s))

----------------------------------------------------------------------------
(* server.js: the whitelist *)

\* /^\/api\/.+$/, /^\/js\/.+\.js$/, ...: prefix, at least one character, suffix
MatchesBetween(path, prefix, suffix) ==
    /\ StartsWith(path, prefix)
    /\ EndsWith(path, suffix)
    /\ Len(path) >= Len(prefix) + 1 + Len(suffix)

AllowedPages == {"/", "/index.html", "/noticias.html", "/eventos.html",
                 "/servicios.html", "/empresas.html"}

AssetExtensions == {"css", "js", "png", "jpg", "jpeg", "gif", "svg", "woff",
                    "woff2", "ttf", "eot", "ico"}

IsAllowedAnyJs(path) ==
    \/ path \in AllowedPages
    \/ MatchesBetween(path, "/api/", "")
    \/ \E ext \in AssetExtensions : MatchesBetween(path, "/assets/", "." \o ext)
    \/ MatchesBetween(path, "/", ".js")
    \/ MatchesBetween(path, "/css/", ".css")
    \/ path = "/favicon.ico"

\* allowedPatterns.some(pattern => pattern.test(path))
IsAllowed(path) ==
    \/ path \in AllowedPages
    \/ MatchesBetween(path, "/api/", "")
    \/ \E ext \in AssetExtensions : MatchesBetween(path, "/assets/", "." \o ext)
    \/ MatchesBetween(path, "/js/", ".js")
    \/ MatchesBetween(path, "/css/", ".css")
    \/ path = "/favicon.ico"

UnderApiAll(path) == TRUE

\* app.use('/api/', limiter): the mount path matches /api and what is below it
UnderApi(path) == path = "/api" \/ StartsWith(path, "/api/")

----------------------------------------------------------------------------
(* The requests of the model *)

Apps == {"server", "middleware", "plain"}
ClientIps == {"10.0.0.1", "10.0.0.2"}

NoQuery == [type |-> "undefined", val |-> ""]
StringQuery(v) == [type |-> "string", val |-> v]
NumberQuery == [type |-> "number", val |-> "7"]

\* request bodies: the length in bytes and the query field of the JSON
NoBody == [len |-> 0, query |-> NoQuery]
Bodies == {
    [len |-> 2, query |-> NoQuery],
    [len |-> 12, query |-> StringQuery("")],
    [len |-> 14, query |-> StringQuery(" \t")],
    [len |-> 20, query |-> StringQuery("SELECT 1")],
    [len |-> 22, query |-> StringQuery(" SELECT 1\n")],
    [len |-> 11, query |-> NumberQuery],
    [len |-> 1025, query |-> StringQuery("SELECT 1")] }

GetPaths == {"/", "/index.html", "/package.json", "/server.js", "/api/",
             "/api", "/js/../server.js",
             "/assets/css/main.css", "/assets/.env", "/js/config.js",
             "/api/config", "/api/get-presentacion", "/api/get-eventos",
             "/api/get-service/Geodesia", "/api/get-service/Mapas",
             "/api/get-service/Nada", "/api/get-noticia/1",
             "/api/get-noticia/9", "/api/query", "/api/nope"}

\* host: the request has a Host header (an HTTP/1.0 request may have none)
Requests ==
    {[method |-> "GET", path |-> p, body |-> NoBody, host |-> TRUE] :
        p \in GetPaths}
    \cup {[method |-> "POST", path |-> "/api/query", body |-> b, host |-> TRUE] :
            b \in Bodies}
    \cup {[method |-> "POST", path |-> "/admin", body |-> NoBody, host |-> TRUE],
          [method |-> "OPTIONS", path |-> "/package.json", body |-> NoBody,
           host |-> TRUE],
          [method |-> "OPTIONS", path |-> "/api/query", body |-> NoBody,
           host |-> TRUE],
          [method |-> "GET", path |-> "/api/config", body |-> NoBody,
           host |-> FALSE]}

NoRequest == [method |-> "", path |-> "", body |-> NoBody, host |-> TRUE,
              ip |-> ""]

----------------------------------------------------------------------------
(* The middleware chains, in app.use order *)

ServerChainBusyFirst == <<"cors", "securityHeaders", "toobusy", "whitelist",
                          "bodyParser", "limiter", "timeout", "haltOnTimedout",
                          "sendPatch", "static", "route", "final">>

ServerChainLimiterFirst == <<"cors", "securityHeaders", "limiter", "whitelist",
                            "toobusy", "bodyParser", "timeout",
                            "haltOnTimedout", "sendPatch", "static", "route",
                            "final">>

ServerChain == <<"cors", "securityHeaders", "whitelist", "toobusy",
                 "bodyParser", "limiter", "timeout", "haltOnTimedout",
                 "sendPatch", "static", "route", "final">>

MwChain == <<"cors", "helmet", "bodyParser", "limiter", "timeout",
             "haltOnTimedout", "route", "final">>

\* server.js, second program: cors, express.json, the routes
PlainChain == <<"cors", "bodyParser", "route", "final">>

Chain == IF app = "server" THEN ServerChain
         ELSE IF app = "middleware" THEN MwChain
         ELSE PlainChain

IndexOf(seq, g) == CHOOSE i \in 1..Len(seq) : seq[i] = g

\* next(): the layer after g
After(g) == Chain[IndexOf(Chain, g) + 1]

\* res.headersSent
HeadersSent == sent # <<>>

\* res.status(status).send / .json: writing after the headers were sent throws
\* ERR_HTTP_HEADERS_SENT and writes nothing
Response(status, type, body) ==
    [status |-> status, type |-> type, body |-> body, headers |-> hdrs]

Written(status, type, body) ==
    IF HeadersSent THEN sent ELSE Append(sent, Response(status, type, body))

\* res.json(value): the document sent is an array or an object
JsonArray(items) == [json |-> "array", val |-> items]
JsonObject(fields) == [json |-> "object", val |-> fields]

ErrorBodyDetailed(msg) == JsonObject([error |-> msg, detail |-> "stack"])

\* { error: msg }
ErrorBody(msg) == JsonObject([error |-> msg])

----------------------------------------------------------------------------
(* The database behind pool.query *)

Services == << [id |-> 3, nombre |-> "Geodesia"],
               [id |-> 5, nombre |-> "Mapas"],
               [id |-> 8, nombre |-> "Mapas"] >>

LineaProd == << [id |-> 1, servicioid |-> 3],
                [id |-> 2, servicioid |-> 5],
                [id |-> 4, servicioid |-> 8],
                [id |-> 6, servicioid |-> 5] >>

Noticias == << [id |-> "1", titulo |-> "Aniversario", fecha |-> "03/11/2025"] >>

Presentacion == << [id |-> 1, titulo |-> "GEOCUBA"] >>
Eventos == << [id |-> 1, titulo |-> "Feria"], [id |-> 2, titulo |-> "Taller"] >>

\* what a statement sent as free text may return
RawResults == { <<>>, << [n |-> 1] >> }

IsService(row, nombre) == row.nombre = nombre
IsLineaOf(row, id) == row.servicioid = id
IsNoticia(row, id) == row.id = id

Reversed(rows) == [i \in 1..Len(rows) |-> rows[Len(rows) + 1 - i]]

ResultsOfAnyOrder(text, params) ==
    IF text = "presentacion" THEN {Presentacion}
    ELSE IF text = "eventos" THEN {Eventos, Reversed(Eventos)}
    ELSE IF text = "serviceByName"
        THEN {SelectSeq(Services, LAMBDA r : IsService(r, params[1]))}
    ELSE IF text = "lineasByServicio"
        THEN {SelectSeq(LineaProd, LAMBDA r : IsLineaOf(r, params[1]))}
    ELSE IF text = "noticiaById"
        THEN {SelectSeq(Noticias, LAMBDA r : IsNoticia(r, params[1]))}
    ELSE RawResults

\* the rows a successful query resolves with
ResultsOf(text, params) ==
    IF text = "presentacion" THEN {Presentacion}
    ELSE IF text = "eventos" THEN {Eventos}
    ELSE IF text = "serviceByName"
        THEN {SelectSeq(Services, LAMBDA r : IsService(r, params[1]))}
    ELSE IF text = "lineasByServicio"
        THEN {SelectSeq(LineaProd, LAMBDA r : IsLineaOf(r, params[1]))}
    ELSE IF text = "noticiaById"
        THEN {SelectSeq(Noticias, LAMBDA r : IsNoticia(r, params[1]))}
    ELSE RawResults

----------------------------------------------------------------------------
(* Routing *)

\* '/api/get-service/:nombre': one path segment after the prefix
ParamOf(path, prefix) == Rest(path, prefix)
MatchesParam(path, prefix) ==
    /\ StartsWith(path, prefix)
    /\ Len(path) > Len(prefix)
    /\ ~Contains(Rest(path, prefix), "/")

\* the route handler that app.get / app.post registered for the request
RouteOf(a, method, path) ==
    IF method = "GET" /\ path = "/api/config" /\ a = "server" THEN "config"
    ELSE IF method = "GET" /\ path = "/api/get-presentacion" THEN "presentacion"
    ELSE IF method = "GET" /\ path = "/api/get-eventos" THEN "eventos"
    ELSE IF method = "GET" /\ MatchesParam(path, "/api/get-service/") THEN "service"
    ELSE IF method = "GET" /\ MatchesParam(path, "/api/get-noticia/") THEN "noticia"
    ELSE IF method = "POST" /\ path = "/api/query" THEN "query"
    ELSE "none"

\* the message of the handler's catch branch
CatchMessage(handler) ==
    IF handler = "eventos" THEN "Error al obtener los eventos"
    ELSE IF handler = "noticia" THEN "Error al obtener la noticia"
    ELSE "Database error."

\* !query || typeof query !== 'string' || query.trim().length === 0
InvalidQuery(query) ==
    \/ query.type = "undefined"
    \/ query.type = "string" /\ query.val = ""
    \/ query.type # "string"
    \/ Len(Trim(query.val)) = 0

\* the handler's locals, and what the gates and the awaits of the request saw
NoLocal == [handler |-> "none", service |-> <<>>, lag |-> 0, ordinal |-> 0,
            results |-> <<>>]

----------------------------------------------------------------------------
(* Rate limiter and load monitor *)

RateMax == IF app = "server" THEN SERVER_RATE_MAX ELSE MW_RATE_MAX

LimiterMessage ==
    IF app = "server"
    THEN "Too many requests from this IP, please try again later."
    ELSE "Too many requests, please try again later."

OverRateInclusive(count) == count >= RateMax

\* express-rate-limit: the request is refused when its hit count is above max
OverRate(count) == count > RateMax

Lags == {100, 150, 250}
Draws == {0, 99}

TooBusyAtThreshold(lag, draw) ==
    lag >= MAX_LAG /\ draw <= ((lag - MAX_LAG) * 100) \div MAX_LAG

\* toobusy(): above maxLag the request is blocked with a probability that
\* grows with the lag; draw is Math.random() in percent
TooBusy(lag, draw) ==
    lag > MAX_LAG /\ draw < ((lag - MAX_LAG) * 100) \div MAX_LAG

\* express.json({ limit: '1kb' }), and express.json() with its default limit
BodyLimit == IF app = "plain" THEN DEFAULT_BODY_LIMIT ELSE BODY_LIMIT

\* body-parser: the body is refused when it is longer than the limit
TooLarge(body) == body.len > BodyLimit

----------------------------------------------------------------------------
(* The request pipeline: state and steps *)

PipeIdle(a) ==
    /\ app = a
    /\ req = NoRequest
    /\ pc = "idle"
    /\ ran = <<>>
    /\ hdrs = {}
    /\ sent = <<>>
    /\ timedout = FALSE
    /\ timer = "off"
    /\ dbCalls = <<>>
    /\ local = NoLocal
    /\ hits = EmptyMap
    /\ seen = EmptyMap
    /\ unhandled = FALSE
    /\ prev = <<>>

PipeInit == \E a \in Apps : PipeIdle(a)

Count(m, k) == IF MapHas(m, k) THEN m[k] ELSE 0

\* the layer runs and calls next()
Pass(g) == /\ ran' = Append(ran, g)
           /\ pc' = After(g)

\* the layer runs and ends the request
Halt(g, status, type, body) ==
    /\ ran' = Append(ran, g)
    /\ sent' = Written(status, type, body)
    /\ pc' = "done"

\* the layer runs and calls next(err): Express skips to the error handler
Fail(g) == /\ ran' = Append(ran, g)
           /\ pc' = "errorHandler"

\* the client sends again the request it sent last
Repeats(r, ip) ==
    /\ pc = "done"
    /\ r.method = req.method /\ r.path = req.path /\ r.body = req.body
    /\ r.host = req.host
    /\ ip = req.ip

\* The HTTP server hands a parsed request to the application
Arrive(r, ip) ==
    /\ pc \in {"idle", "done"}
    /\ Count(seen, ip) < RateMax + ExtraHits
    /\ req' = [method |-> r.method, path |-> r.path, body |-> r.body,
               host |-> r.host, ip |-> ip]
    /\ pc' = Chain[1]
    /\ ran' = <<>>
    /\ hdrs' = {}
    /\ sent' = <<>>
    /\ timedout' = FALSE
    /\ timer' = "off"
    /\ dbCalls' = <<>>
    /\ local' = NoLocal
    /\ unhandled' = FALSE
    /\ prev' = IF Repeats(r, ip) THEN sent ELSE <<>>
    /\ UNCHANGED <<app, hits, seen, trackerVars, shutdownVars, preloaderVars>>

\* app.use(cors()): answers a preflight request itself
Cors ==
    /\ pc = "cors"
    /\ hdrs' = hdrs \cup {"Access-Control-Allow-Origin"}
    /\ IF req.method = "OPTIONS"
       THEN /\ ran' = Append(ran, "cors")
            /\ sent' = IF HeadersSent THEN sent
                       ELSE Append(sent, [status |-> 204, type |-> "empty",
                                          body |-> "", headers |-> hdrs'])
            /\ pc' = "done"
       ELSE Pass("cors") /\ UNCHANGED sent
    /\ UNCHANGED <<app, req, timedout, timer, dbCalls, local, hits, seen,
                   unhandled, prev, trackerVars, shutdownVars, preloaderVars>>

SecurityHeadersFrameOnly ==
    /\ pc = "securityHeaders"
    /\ hdrs' = hdrs \cup {"X-Frame-Options"}
    /\ Pass("securityHeaders")
    /\ UNCHANGED <<app, req, sent, timedout, timer, dbCalls, local, hits, seen,
                   unhandled, prev, trackerVars, shutdownVars, preloaderVars>>

\* server.js: the security headers middleware
SecurityHeaders ==
    /\ pc = "securityHeaders"
    /\ hdrs' = hdrs \cup {"X-Frame-Options", "Content-Security-Policy"}
    /\ Pass("securityHeaders")
    /\ UNCHANGED <<app, req, sent, timedout, timer, dbCalls, local, hits, seen,
                   unhandled, prev, trackerVars, shutdownVars, preloaderVars>>

\* middleware.js: app.use(helmet())
Helmet ==
    /\ pc = "helmet"
    /\ hdrs' = hdrs \cup {"X-Frame-Options", "Content-Security-Policy",
                          "Strict-Transport-Security", "X-Content-Type-Options"}
    /\ Pass("helmet")
    /\ UNCHANGED <<app, req, sent, timedout, timer, dbCalls, local, hits, seen,
                   unhandled, prev, trackerVars, shutdownVars, preloaderVars>>

WhitelistAlwaysNext ==
    /\ pc = "whitelist"
    /\ ran' = Append(ran, "whitelist")
    /\ sent' = IF IsAllowed(req.path) THEN sent
               ELSE Written(403, "text", "Access Forbidden")
    /\ pc' = After("whitelist")
    /\ UNCHANGED <<app, req, hdrs, timedout, timer, dbCalls, local, hits, seen,
                   unhandled, prev, trackerVars, shutdownVars, preloaderVars>>

\* server.js: the whitelist middleware
Whitelist ==
    /\ pc = "whitelist"
    /\ IF IsAllowed(req.path)
       THEN Pass("whitelist") /\ UNCHANGED sent
       ELSE Halt("whitelist", 403, "text", "Access Forbidden")
    /\ UNCHANGED <<app, req, hdrs, timedout, timer, dbCalls, local, hits, seen,
                   unhandled, prev, trackerVars, shutdownVars, preloaderVars>>

TooBusyGateAlsoNext(lag, draw) ==
    /\ pc = "toobusy"
    /\ ran' = Append(ran, "toobusy")
    /\ sent' = IF TooBusy(lag, draw)
               THEN Written(503, "json",
                        ErrorBody("Server is too busy. Please try again later."))
               ELSE sent
    /\ pc' = After("toobusy")
    /\ local' = [local EXCEPT !.lag = lag]
    /\ UNCHANGED <<app, req, hdrs, timedout, timer, dbCalls, hits, seen,
                   unhandled, prev, trackerVars, shutdownVars, preloaderVars>>

\* server.js: the toobusy middleware
TooBusyGate(lag, draw) ==
    /\ pc = "toobusy"
    /\ IF TooBusy(lag, draw)
       THEN Halt("toobusy", 503, "json",
                 ErrorBody("Server is too busy. Please try again later."))
       ELSE Pass("toobusy") /\ UNCHANGED sent
    /\ local' = [local EXCEPT !.lag = lag]
    /\ UNCHANGED <<app, req, hdrs, timedout, timer, dbCalls, hits, seen,
                   unhandled, prev, trackerVars, shutdownVars, preloaderVars>>

\* express.json / express.urlencoded with limit '1kb'
BodyParser ==
    /\ pc = "bodyParser"
    /\ IF TooLarge(req.body) THEN Fail("bodyParser") ELSE Pass("bodyParser")
    /\ UNCHANGED <<app, req, hdrs, sent, timedout, timer, dbCalls, local, hits,
                   seen, unhandled, prev, trackerVars, shutdownVars, preloaderVars>>

\* app.use('/api/', limiter)
Limiter ==
    /\ pc = "limiter"
    /\ IF UnderApi(req.path)
       THEN LET counts == CountUp(hits, req.ip)
            IN  /\ hits' = counts
                /\ seen' = CountUp(seen, req.ip)
                /\ local' = [local EXCEPT !.ordinal = Count(seen, req.ip) + 1]
                /\ IF OverRate(counts[req.ip])
                   THEN Halt("limiter", 429, "text", LimiterMessage)
                   ELSE Pass("limiter") /\ UNCHANGED sent
       ELSE /\ pc' = After("limiter")
            /\ UNCHANGED <<ran, sent, hits, seen, local>>
    /\ UNCHANGED <<app, req, hdrs, timedout, timer, dbCalls, unhandled,
                   prev, trackerVars, shutdownVars, preloaderVars>>

ResetAllUnderCeiling(store) ==
    [k \in {x \in DOMAIN store : store[x] > RateMax} |-> store[k]]

\* the store's resetAll(): every client's count is dropped
ResetAll(store) == EmptyMap

\* The window of the rate limiter ends: the store is reset
WindowReset ==
    /\ hits # EmptyMap
    /\ hits' = ResetAll(hits)
    /\ seen' = EmptyMap
    /\ UNCHANGED <<app, req, pc, ran, hdrs, sent, timedout, timer, dbCalls,
                   local, unhandled, prev, trackerVars, shutdownVars, preloaderVars>>

\* app.use(timeout('10s')): starts the timer
Timeout ==
    /\ pc = "timeout"
    /\ timer' = "armed"
    /\ timedout' = FALSE
    /\ Pass("timeout")
    /\ UNCHANGED <<app, req, hdrs, sent, dbCalls, local, hits, seen, unhandled,
                   prev, trackerVars, shutdownVars, preloaderVars>>

\* if (!req.timedout) next(); else res.status(408).json(...)
HaltOnTimedout ==
    /\ pc = "haltOnTimedout"
    /\ IF ~timedout
       THEN Pass("haltOnTimedout") /\ UNCHANGED sent
       ELSE Halt("haltOnTimedout", 408, "json",
                 ErrorBody("Request timed out. Please try again."))
    /\ UNCHANGED <<app, req, hdrs, timedout, timer, dbCalls, local, hits, seen,
                   unhandled, prev, trackerVars, shutdownVars, preloaderVars>>

\* server.js: the middleware that wraps res.send
SendPatch ==
    /\ pc = "sendPatch"
    /\ Pass("sendPatch")
    /\ UNCHANGED <<app, req, hdrs, sent, timedout, timer, dbCalls, local, hits,
                   seen, unhandled, prev, trackerVars, shutdownVars, preloaderVars>>

\* send refuses a path with a '..' segment, and serve-static then calls next()
HasUpPath(path) ==
    \/ EndsWith(path, "/..")
    \/ \E i \in 1..Len(path) : StartsWith(SubSeq(path, i, Len(path)), "/../")

\* server.js: the express.static mounts
Static(found) ==
    /\ pc = "static"
    /\ IF found /\ req.method = "GET" /\ ~UnderApi(req.path)
          /\ ~HasUpPath(req.path)
       THEN Halt("static", 200, "file", req.path)
       ELSE Pass("static") /\ UNCHANGED sent
    /\ UNCHANGED <<app, req, hdrs, timedout, timer, dbCalls, local, hits, seen,
                   unhandled, prev, trackerVars, shutdownVars, preloaderVars>>

----------------------------------------------------------------------------
(* Route handlers *)

Query(text, params) == [text |-> text, params |-> params]

QueryTextTrimmed(query) == Trim(query.val)

\* pool.query(query): the text of the body's query field
QueryText(query) == query.val

ProductLinesParamsLast(rows) == << rows[Len(rows)].id >>

\* [service.id] with service = serviceResult.rows[0]
ProductLinesParams(rows) == << rows[1].id >>

ConfigBody ==
    JsonObject([server |-> "host", port |-> "8060", apiUrl |-> "http://host/api"])

NoticiaBodyArray(rows) == JsonArray(rows)

\* res.json(result.rows[0])
NoticiaBody(rows) == JsonObject(rows[1])

\* the handler writes a response; when the headers were already sent the
\* write throws, the catch branch's write throws again, and the promise of
\* the async handler is rejected with nobody to handle it
HandlerWrites(status, type, body) ==
    /\ sent' = Written(status, type, body)
    /\ unhandled' = (unhandled \/ HeadersSent)
    /\ pc' = "done"

\* Express calls the route handler that matches the request, up to its
\* first await
Route ==
    /\ pc = "route"
    /\ LET h == RouteOf(app, req.method, req.path)
       IN  IF h = "none"
           THEN /\ pc' = After("route")
                /\ UNCHANGED <<ran, sent, dbCalls, local>>
           ELSE /\ ran' = Append(ran, h)
                /\ local' = [local EXCEPT !.handler = h]
                /\ IF h = "config" /\ ~req.host
                   THEN \* host.includes(':') throws on an undefined host
                        /\ pc' = "errorHandler"
                        /\ UNCHANGED <<sent, dbCalls>>
                   ELSE IF h = "config"
                   THEN /\ sent' = Written(200, "json", ConfigBody)
                        /\ pc' = "done"
                        /\ UNCHANGED dbCalls
                   ELSE IF h = "query" /\ InvalidQuery(req.body.query)
                   THEN /\ sent' = Written(400, "json", ErrorBody("Invalid query."))
                        /\ pc' = "done"
                        /\ UNCHANGED dbCalls
                   ELSE /\ dbCalls' = Append(dbCalls,
                              IF h = "query"
                                  THEN Query(QueryText(req.body.query), <<>>)
                              ELSE IF h = "service"
                                  THEN Query("serviceByName",
                                        <<ParamOf(req.path, "/api/get-service/")>>)
                              ELSE IF h = "noticia"
                                  THEN Query("noticiaById",
                                        <<ParamOf(req.path, "/api/get-noticia/")>>)
                              ELSE Query(h, <<>>))
                        /\ pc' = "await"
                        /\ UNCHANGED sent
    /\ UNCHANGED <<app, req, hdrs, timedout, timer, hits, seen, unhandled,
                   prev, trackerVars, shutdownVars, preloaderVars>>

LastCall == dbCalls[Len(dbCalls)]

\* what an await of pool.query produced
Rejected(err) == [ok |-> FALSE, rows |-> <<>>, error |-> err]
Resolved(rows) == [ok |-> TRUE, rows |-> rows, error |-> ""]

\* what pool.query may be rejected with
DbErrors == {"connect ECONNREFUSED 127.0.0.1:5432",
             "relation \"sitio.noticias\" does not exist"}

\* The awaited query is rejected: the handler's catch branch
QueryFails(err) ==
    /\ pc \in {"await", "await2"}
    /\ HandlerWrites(500, "json", ErrorBody(CatchMessage(local.handler)))
    /\ local' = [local EXCEPT !.results = Append(@, Rejected(err))]
    /\ UNCHANGED <<app, req, ran, hdrs, timedout, timer, dbCalls, hits, seen,
                   prev, trackerVars, shutdownVars, preloaderVars>>

\* The awaited query resolves: the handler runs on with result.rows
QueryResolves ==
    /\ pc \in {"await", "await2"}
    /\ \E rows \in ResultsOf(LastCall.text, LastCall.params) :
        IF local.handler = "service" /\ pc = "await"
        THEN IF Len(rows) = 0
             THEN /\ HandlerWrites(404, "json", ErrorBody("Service not found"))
                  /\ local' = [local EXCEPT !.results = Append(@, Resolved(rows))]
                  /\ UNCHANGED dbCalls
             ELSE /\ local' = [local EXCEPT !.service = rows[1],
                                            !.results = Append(@, Resolved(rows))]
                  /\ dbCalls' = Append(dbCalls,
                         Query("lineasByServicio", ProductLinesParams(rows)))
                  /\ pc' = "await2"
                  /\ UNCHANGED <<sent, unhandled>>
        ELSE /\ IF local.handler = "service"
                THEN HandlerWrites(200, "json",
                         JsonObject([service |-> local.service,
                                     productLines |-> rows]))
                ELSE IF local.handler = "noticia"
                THEN IF Len(rows) = 0
                     THEN HandlerWrites(404, "json",
                              ErrorBody("Noticia no encontrada"))
                     ELSE HandlerWrites(200, "json", NoticiaBody(rows))
                ELSE HandlerWrites(200, "json", JsonArray(rows))
             /\ local' = [local EXCEPT !.results = Append(@, Resolved(rows))]
             /\ UNCHANGED dbCalls
    /\ UNCHANGED <<app, req, ran, hdrs, timedout, timer, hits, seen, prev, trackerVars, shutdownVars, preloaderVars>>

InternalErrorWithCause == ErrorBody("request entity too large")

\* res.status(500).json({ error: 'Internal server error.' })
InternalError == ErrorBody("Internal server error.")

\* The global error handling middleware
ErrorHandler ==
    /\ pc = "errorHandler"
    /\ Halt("errorHandler", 500, "json", InternalError)
    /\ UNCHANGED <<app, req, hdrs, timedout, timer, dbCalls, local, hits, seen,
                   unhandled, prev, trackerVars, shutdownVars, preloaderVars>>

\* The timer of connect-timeout fires while the handler awaits a query and
\* no header was sent: req.timedout is set and the 'timeout' listener calls
\* next(err), which Express takes to the global error handler
TimeoutFires ==
    /\ timer = "armed"
    /\ pc \in {"await", "await2"}
    /\ ~HeadersSent
    /\ timedout' = TRUE
    /\ timer' = "fired"
    /\ ran' = Append(ran, "errorHandler")
    /\ sent' = Written(500, "json", InternalError)
    /\ UNCHANGED <<app, req, pc, hdrs, dbCalls, local, hits, seen, unhandled,
                   prev, trackerVars, shutdownVars, preloaderVars>>

\* No layer answered: Express replies 404
Final ==
    /\ pc = "final"
    /\ Halt("final", 404, "html", "Cannot " \o req.method \o " " \o req.path)
    /\ UNCHANGED <<app, req, hdrs, timedout, timer, dbCalls, local, hits, seen,
                   unhandled, prev, trackerVars, shutdownVars, preloaderVars>>

----------------------------------------------------------------------------
(* server.js: shutdown on SIGTERM and SIGINT *)

Conns == 1..MaxConns

\* the handlers with one pool.query call, and /api/get-service with two
HandlerKinds == {"single", "service"}

IdleHandler == [st |-> "idle", kind |-> "single"]

\* the server after app.listen(): listening, pool open, nothing in flight
ShutdownInit ==
    /\ listening = TRUE
    /\ conn = [c \in Conns |-> "none"]
    /\ handlers = [c \in Conns |-> IdleHandler]
    /\ closeCallbacks = 0
    /\ serverClosed = FALSE
    /\ poolState = "open"
    /\ exited = FALSE
    /\ lateQuery = FALSE
    /\ signals = 0

\* the clients the pool has checked out: one per query in progress
CheckedOut == {c \in Conns : handlers[c].st \in {"query1", "query2"}}

\* a listening server accepts a client connection
AcceptConnection(c) ==
    /\ ~exited /\ listening
    /\ conn[c] = "none"
    /\ conn' = [conn EXCEPT ![c] = "open"]
    /\ UNCHANGED <<listening, handlers, closeCallbacks, serverClosed, poolState,
                   exited, lateQuery, signals>>
    /\ UNCHANGED <<trackerVars, pipeVars, preloaderVars>>

\* await pool.query(...): a pool on which end() was called rejects the call,
\* the handlers's catch block answers 500
PoolQuery(c, k, stage) ==
    IF poolState = "open"
    THEN /\ handlers' = [handlers EXCEPT ![c] = [st |-> stage, kind |-> k]]
         /\ lateQuery' = lateQuery
    ELSE /\ handlers' = [handlers EXCEPT ![c] = IdleHandler]
         /\ lateQuery' = TRUE

\* a request arrives on an open connection and its handlers issues its first
\* query
HandleRequest(c, k) ==
    /\ ~exited
    /\ conn[c] = "open"
    /\ handlers[c].st = "idle"
    /\ PoolQuery(c, k, "query1")
    /\ UNCHANGED <<listening, conn, closeCallbacks, serverClosed, poolState,
                   exited, signals>>
    /\ UNCHANGED <<trackerVars, pipeVars, preloaderVars>>

\* a query resolves: /api/get-service goes on to its second query when the
\* first one found the service, every other handlers answers
QueryCompletes(c, found) ==
    /\ ~exited
    /\ c \in CheckedOut
    /\ IF handlers[c].st = "query1" /\ handlers[c].kind = "service" /\ found
       THEN PoolQuery(c, "service", "query2")
       ELSE /\ handlers' = [handlers EXCEPT ![c] = IdleHandler]
            /\ lateQuery' = lateQuery
    /\ UNCHANGED <<listening, conn, closeCallbacks, serverClosed, poolState,
                   exited, signals>>
    /\ UNCHANGED <<trackerVars, pipeVars, preloaderVars>>

\* the connection closes, with a request in flight or without: the handlers
\* of a request in flight keeps running
ClientDisconnects(c) ==
    /\ ~exited
    /\ conn[c] = "open"
    /\ conn' = [conn EXCEPT ![c] = "closed"]
    /\ UNCHANGED <<listening, handlers, closeCallbacks, serverClosed, poolState,
                   exited, lateQuery, signals>>
    /\ UNCHANGED <<trackerVars, pipeVars, preloaderVars>>

\* function shutdown(), the handlers of SIGTERM and of SIGINT:
\* server.close(callback) stops the listener and keeps the callback for the
\* server's 'close' event
Shutdown ==
    /\ ~exited
    /\ signals < MaxSignals
    /\ signals' = signals + 1
    /\ listening' = FALSE
    /\ closeCallbacks' = closeCallbacks + 1
    /\ UNCHANGED <<conn, handlers, serverClosed, poolState, exited, lateQuery>>
    /\ UNCHANGED <<trackerVars, pipeVars, preloaderVars>>

\* the server emits 'close' once it neither listens nor has a connection, and
\* the callbacks of server.close() run: the first pool.end(callback) starts
\* ending the pool, a further one is answered at once with an error
\* ('Called end on pool more than once') and its callback calls process.exit(0)
ServerCloseCallback ==
    /\ ~exited
    /\ ~listening
    /\ closeCallbacks > 0
    /\ \A c \in Conns : conn[c] # "open"
    /\ serverClosed' = TRUE
    /\ closeCallbacks' = 0
    /\ poolState' = IF poolState = "open" THEN "ending" ELSE poolState
    /\ exited' = (poolState # "open" \/ closeCallbacks > 1)
    /\ UNCHANGED <<listening, conn, handlers, lateQuery, signals>>
    /\ UNCHANGED <<trackerVars, pipeVars, preloaderVars>>

\* the pool has ended once every client was returned: the callback of
\* pool.end() runs and calls process.exit(0)
PoolEndCallback ==
    /\ ~exited
    /\ poolState = "ending"
    /\ CheckedOut = {}
    /\ poolState' = "ended"
    /\ exited' = TRUE
    /\ UNCHANGED <<listening, conn, handlers, closeCallbacks, serverClosed,
                   lateQuery, signals>>
    /\ UNCHANGED <<trackerVars, pipeVars, preloaderVars>>

----------------------------------------------------------------------------
(* README.md: the page preloader *)

ClockSteps == {ClockStep}

\* the page before the preloader script runs
PreloaderIdle ==
    /\ clock = 0
    /\ scriptRan = FALSE
    /\ domReady = FALSE
    /\ listener = FALSE
    /\ preloaderContainer = "undefined"
    /\ attached = FALSE
    /\ opacity = "1"
    /\ visibility = "hidden"
    /\ maxTimeout = "unset"
    /\ loadFired = FALSE
    /\ loadAt = 0
    /\ hideTimers = {}
    /\ fadeTimers = {}
    /\ removals = 0

\* the deadlines of the timers that have not fired
Deadlines ==
    hideTimers \cup fadeTimers
        \cup (IF maxTimeout = "pending" THEN {MAX_TIMEOUT_MS} ELSE {})

\* the script runs, in <head> (no document.body yet) or in <body>
RunScript(body) ==
    /\ ~scriptRan
    /\ scriptRan' = TRUE
    /\ IF body
       THEN /\ preloaderContainer' = "element"
            /\ attached' = TRUE
            /\ visibility' = "visible"
            /\ listener' = FALSE
       ELSE /\ listener' = TRUE
            /\ UNCHANGED <<preloaderContainer, attached, visibility>>
    /\ maxTimeout' = "pending"
    /\ UNCHANGED <<clock, domReady, opacity, loadFired, loadAt, hideTimers,
                   fadeTimers, removals>>
    /\ UNCHANGED <<trackerVars, pipeVars, shutdownVars>>

\* DOMContentLoaded: the listener, registered once, creates the preloader
DOMContentLoaded ==
    /\ scriptRan /\ ~domReady
    /\ domReady' = TRUE
    /\ listener' = FALSE
    /\ IF listener
       THEN /\ preloaderContainer' = "element"
            /\ attached' = TRUE
            /\ opacity' = "1"
            /\ visibility' = "visible"
       ELSE UNCHANGED <<preloaderContainer, attached, opacity, visibility>>
    /\ UNCHANGED <<clock, scriptRan, maxTimeout, loadFired, loadAt, hideTimers,
                   fadeTimers, removals>>
    /\ UNCHANGED <<trackerVars, pipeVars, shutdownVars>>

\* hidePreloader(): nothing without a container, else fade and set the
\* removal timer
HidePreloader ==
    IF preloaderContainer # "element"
    THEN UNCHANGED <<opacity, fadeTimers>>
    ELSE /\ opacity' = "0"
         /\ fadeTimers' = fadeTimers \cup {clock + FADE_MS}

\* the 10-second timer fires
MaxTimeoutFires ==
    /\ maxTimeout = "pending"
    /\ clock = MAX_TIMEOUT_MS
    /\ maxTimeout' = "fired"
    /\ HidePreloader
    /\ UNCHANGED <<clock, scriptRan, domReady, listener, preloaderContainer,
                   attached, visibility, loadFired, loadAt, hideTimers,
                   removals>>
    /\ UNCHANGED <<trackerVars, pipeVars, shutdownVars>>

\* window 'load': clearTimeout(maxTimeout); setTimeout(hidePreloader, 200)
Load ==
    /\ domReady /\ ~loadFired
    /\ loadFired' = TRUE
    /\ loadAt' = clock
    /\ maxTimeout' = IF maxTimeout = "pending" THEN "cleared" ELSE maxTimeout
    /\ hideTimers' = hideTimers \cup {clock + LOAD_DELAY_MS}
    /\ UNCHANGED <<clock, scriptRan, domReady, listener, preloaderContainer,
                   attached, opacity, visibility, fadeTimers, removals>>
    /\ UNCHANGED <<trackerVars, pipeVars, shutdownVars>>

\* the timer set by 'load' fires
HideTimerFires(t) ==
    /\ t \in hideTimers
    /\ clock = t
    /\ hideTimers' = hideTimers \ {t}
    /\ HidePreloader
    /\ UNCHANGED <<clock, scriptRan, domReady, listener, preloaderContainer,
                   attached, visibility, maxTimeout, loadFired, loadAt,
                   removals>>
    /\ UNCHANGED <<trackerVars, pipeVars, shutdownVars>>

\* a removal timer fires: the container, if it is still in the document, is
\* removed and the variable set to null
FadeTimerFires(t) ==
    /\ t \in fadeTimers
    /\ clock = t
    /\ fadeTimers' = fadeTimers \ {t}
    /\ IF preloaderContainer = "element" /\ attached
       THEN /\ attached' = FALSE
            /\ preloaderContainer' = "null"
            /\ removals' = removals + 1
       ELSE UNCHANGED <<preloaderContainer, attached, removals>>
    /\ UNCHANGED <<clock, scriptRan, domReady, listener, opacity, visibility,
                   maxTimeout, loadFired, loadAt, hideTimers>>
    /\ UNCHANGED <<trackerVars, pipeVars, shutdownVars>>

Earliest(S, limit) ==
    IF S = {} THEN limit
    ELSE LET m == CHOOSE x \in S : \A y \in S : x <= y
         IN  IF m < limit THEN m ELSE limit

\* time passes, never beyond the deadline of a timer that has not fired
PageTick(d) ==
    /\ scriptRan
    /\ clock < Earliest(Deadlines, MaxClock)
    /\ clock' = Earliest(Deadlines \cup {clock + d}, MaxClock)
    /\ UNCHANGED <<scriptRan, domReady, listener, preloaderContainer, attached,
                   opacity, visibility, maxTimeout, loadFired, loadAt,
                   hideTimers, fadeTimers, removals>>
    /\ UNCHANGED <<trackerVars, pipeVars, shutdownVars>>

Init == TrackerInit /\ PipeInit /\ ShutdownInit /\ PreloaderIdle

Next ==
    \/ \E r \in Requests, ip \in ClientIps : Arrive(r, ip)
    \/ Cors
    \/ SecurityHeaders
    \/ Helmet
    \/ Whitelist
    \/ \E lag \in Lags, draw \in Draws : TooBusyGate(lag, draw)
    \/ BodyParser
    \/ Limiter
    \/ WindowReset
    \/ Timeout
    \/ HaltOnTimedout
    \/ SendPatch
    \/ \E found \in BOOLEAN : Static(found)
    \/ Route
    \/ \E err \in DbErrors : QueryFails(err)
    \/ QueryResolves
    \/ ErrorHandler
    \/ TimeoutFires
    \/ Final

Spec == Init /\ [][Next]_vars


----------------------------------------------------------------------------
(* The connection trackers, driven by socket events alone *)

TrackerNext ==
    \/ \E addr \in RemoteAddresses : Connect(addr)
    \/ \E s \in Sockets : Close(s)
    \/ \E s \in Sockets : HttpRequest(s)
    \/ \E d \in TickSteps : Tick(d)

InitTracker ==
    TrackerInit /\ PipeIdle("server") /\ ShutdownInit /\ PreloaderIdle

SpecTracker == InitTracker /\ [][TrackerNext]_vars

----------------------------------------------------------------------------
(* server.js shutting down *)

ShutdownNext ==
    \/ \E c \in Conns : AcceptConnection(c)
    \/ \E c \in Conns, k \in HandlerKinds : HandleRequest(c, k)
    \/ \E c \in Conns, found \in BOOLEAN : QueryCompletes(c, found)
    \/ \E c \in Conns : ClientDisconnects(c)
    \/ Shutdown
    \/ ServerCloseCallback
    \/ PoolEndCallback

InitShutdown ==
    TrackerInit /\ PipeIdle("server") /\ ShutdownInit /\ PreloaderIdle

SpecShutdown == InitShutdown /\ [][ShutdownNext]_vars

----------------------------------------------------------------------------
(* The page with the preloader script *)

PreloaderNext ==
    \/ \E body \in BOOLEAN : RunScript(body)
    \/ DOMContentLoaded
    \/ MaxTimeoutFires
    \/ Load
    \/ \E t \in hideTimers : HideTimerFires(t)
    \/ \E t \in fadeTimers : FadeTimerFires(t)
    \/ \E d \in ClockSteps : PageTick(d)

InitPreloader ==
    TrackerInit /\ PipeIdle("server") /\ ShutdownInit /\ PreloaderIdle

SpecPreloader == InitPreloader /\ [][PreloaderNext]_vars

----------------------------------------------------------------------------
(* The connection trackers: claims *)

Connected == {s \in Sockets : sock[s].st # "idle"}
OpenSockets == {s \in Sockets : sock[s].st = "open"}
OpenFrom(ip) == {s \in OpenSockets : ServerIp(sock[s].addr) = ip}
MwOpenFrom(addr) == {s \in OpenSockets : sock[s].addr = addr}
ServerKeys == {ServerIp(a) : a \in RemoteAddresses} \cup RemoteAddresses

\* C2: a connection whose arrival takes its IP's active count over the limit
\* (server.js and middleware.js) is destroyed in the 'connection' event and
\* no HTTP response is ever produced on it.
C2_OverLimitNeverAnswered ==
    \A s \in Connected :
        /\ sock[s].overCap => sock[s].destroyed /\ ~sock[s].responded
        /\ sock[s].mwOverCap => sock[s].mwDestroyed /\ ~sock[s].mwResponded

\* a connection over both limits is refused while an earlier connection of
\* the same address has been answered by both servers
C2_Witness ==
    \E s, t \in Connected :
        /\ sock[s].overCap /\ sock[s].mwOverCap /\ sock[s].st = "closed"
        /\ sock[t].addr = sock[s].addr
        /\ sock[t].responded /\ sock[t].mwResponded

\* C6 (as claimed): the tracker holds a count or a timestamp queue only for
\* IPs that have an open connection.
C6_StateOnlyForConnectedIps ==
    \A ip \in DOMAIN activeConnections \cup DOMAIN requestQueue :
        OpenFrom(ip) # {}

\* C7: in both trackers the stored count of an IP is the number of its
\* sockets that fired 'connection' and not yet 'close'; it is never negative
\* and the IP has no entry exactly when that number is 0.
C7_CountIsOpenSockets ==
    /\ \A ip \in ServerKeys \cup DOMAIN activeConnections :
        /\ MapHas(activeConnections, ip) <=> OpenFrom(ip) # {}
        /\ MapHas(activeConnections, ip) =>
              /\ activeConnections[ip] = Cardinality(OpenFrom(ip))
              /\ activeConnections[ip] >= 0
    /\ \A a \in RemoteAddresses \cup DOMAIN mwActiveConnections :
        /\ MapHas(mwActiveConnections, a) <=> MwOpenFrom(a) # {}
        /\ MapHas(mwActiveConnections, a) =>
              /\ mwActiveConnections[a] = Cardinality(MwOpenFrom(a))
              /\ mwActiveConnections[a] >= 0

\* a destroyed socket that has not fired 'close' is still counted, so the
\* count stands above the limit, and another IP has lost its entry
C7_Witness ==
    \E s \in OpenSockets, t \in Connected :
        /\ sock[s].destroyed /\ sock[s].mwDestroyed
        /\ activeConnections[ServerIp(sock[s].addr)] > MAX_CONNECTIONS_PER_IP
        /\ mwActiveConnections[sock[s].addr] > MW_MAX_CONNECTIONS
        /\ sock[t].st = "closed" /\ sock[t].addr # sock[s].addr
        /\ ~MapHas(activeConnections, ServerIp(sock[t].addr))
        /\ ~MapHas(mwActiveConnections, sock[t].addr)

\* connection events of the IP of s in the 60 s up to and including s
RecentEvents(s) ==
    {t \in Connected :
        /\ t <= s
        /\ ServerIp(sock[t].addr) = ServerIp(sock[s].addr)
        /\ sock[t].at >= sock[s].at - QUEUE_WINDOW_MS}

LastFrom(ip) ==
    CHOOSE s \in Connected :
        /\ ServerIp(sock[s].addr) = ip
        /\ \A t \in Connected : ServerIp(sock[t].addr) = ip => t <= s

\* C8 (as claimed): every connection event appends the time to the queue of
\* its IP and prunes the entries older than 60 s, and a socket is closed on
\* queue grounds only if more than MAX_QUEUE_SIZE connection events of its
\* IP occurred in the preceding 60 s.
C8_QueueOverflowMeansRecentFlood ==
    /\ \A ip \in DOMAIN requestQueue :
          LET q == requestQueue[ip]
              last == sock[LastFrom(ip)].at
          IN  /\ Len(q) > 0 /\ q[Len(q)] = last
              /\ \A i \in 1..Len(q) : q[i] >= last - QUEUE_WINDOW_MS
              /\ \A i \in 1..(Len(q) - 1) : q[i] <= q[i + 1]
    /\ \A s \in Connected :
          sock[s].overQueue => Cardinality(RecentEvents(s)) > MAX_QUEUE_SIZE

----------------------------------------------------------------------------
(* The request pipeline: claims *)

Last(seq) == seq[Len(seq)]
InRan(g) == \E i \in 1..Len(ran) : ran[i] = g
Answered(status, type) ==
    Len(sent) = 1 /\ sent[1].status = status /\ sent[1].type = type
AnsweredError(status, msg) ==
    Answered(status, "json") /\ sent[1].body = ErrorBody(msg)

NothingAfterWhitelist ==
    /\ \A i \in 1..Len(ran) : ran[i] \in {"cors", "securityHeaders", "whitelist"}
    /\ dbCalls = <<>>
    /\ local.handler = "none"

\* C1 (as claimed): in server.js every request whose path matches no
\* whitelist pattern is answered 403 'Access Forbidden', and nothing after
\* the whitelist gate runs for it.
C1_EveryUnlistedPathForbidden ==
    (app = "server" /\ pc # "idle" /\ ~IsAllowed(req.path)) =>
        /\ NothingAfterWhitelist
        /\ pc = "done" =>
              Answered(403, "text") /\ sent[1].body = "Access Forbidden"

\* C1 (amended): the same for every request that is not a CORS preflight; an
\* OPTIONS request is answered 204 by cors() before the whitelist gate runs.
C1_UnlistedPathForbidden ==
    (app = "server" /\ pc # "idle" /\ ~IsAllowed(req.path)) =>
        /\ NothingAfterWhitelist
        /\ pc = "done" =>
              IF req.method = "OPTIONS"
              THEN Answered(204, "empty") /\ ran = <<"cors">>
              ELSE /\ Answered(403, "text")
                   /\ sent[1].body = "Access Forbidden"
                   /\ Last(ran) = "whitelist"

C1_Witness ==
    /\ app = "server" /\ pc = "done"
    /\ req.method = "GET" /\ req.path = "/server.js"
    /\ Answered(403, "text")

\* C3: within one window, the first `ceiling` requests of an IP that reach
\* the rate limiter pass it, and every later one is answered 429 without
\* reaching a route handler.
C3_CeilingThen429 ==
    (pc # "idle" /\ InRan("limiter")) =>
        IF local.ordinal <= RateMax
        THEN /\ \A i \in 1..Len(sent) : sent[i].status # 429
             /\ ~(pc = "done" /\ Last(ran) = "limiter")
        ELSE /\ pc = "done"
             /\ Last(ran) = "limiter"
             /\ Answered(429, "text")
             /\ local.handler = "none"
             /\ dbCalls = <<>>

\* the request after the (ceiling+1)-th is refused too
C3_Witness ==
    /\ pc = "done" /\ InRan("limiter")
    /\ local.ordinal = RateMax + 2
    /\ Answered(429, "text")
    /\ Count(hits, req.ip) = RateMax + 2

\* C4 (as claimed): a request that times out receives exactly one response,
\* a 408 with a JSON error body, and the late handler writes nothing more.
C4_TimeoutAnswered408 ==
    timedout => Answered(408, "json")

Gates == {"securityHeaders", "whitelist", "toobusy", "bodyParser", "limiter",
          "timeout", "haltOnTimedout"}

Position(order, g) == CHOOSE i \in 1..Len(order) : order[i] = g

InOrder(order) ==
    \A i, j \in 1..Len(ran) :
        (i < j /\ ran[i] \in Gates /\ ran[j] \in Gates) =>
            Position(order, ran[i]) < Position(order, ran[j])

\* a gate that answered the request is the last thing that ran for it, and
\* after a body the parser refused only the error handler ran
HaltingGateIsLast ==
    /\ (sent # <<>> /\ sent[1].status \in {403, 503, 429}) =>
          /\ pc = "done"
          /\ Last(ran) = (IF sent[1].status = 403 THEN "whitelist"
                          ELSE IF sent[1].status = 503 THEN "toobusy"
                          ELSE "limiter")
    /\ (InRan("bodyParser") /\ TooLarge(req.body)) =>
          \A g \in {"limiter", "timeout", "haltOnTimedout", "static"} : ~InRan(g)

ClaimedOrder == <<"whitelist", "toobusy", "securityHeaders", "bodyParser",
                  "limiter", "timeout", "haltOnTimedout">>

ActualOrder == <<"securityHeaders", "whitelist", "toobusy", "bodyParser",
                 "limiter", "timeout", "haltOnTimedout">>

\* C5 (as claimed): the gates run in the order whitelist, load-shedding,
\* security headers, body limit, rate limiter, timeout; the whitelist runs
\* before any other processing; a gate that ends the request stops the rest.
C5_WhitelistFirstOrder ==
    app = "server" =>
        /\ InOrder(ClaimedOrder)
        /\ ran # <<>> => ran[1] = "whitelist"
        /\ HaltingGateIsLast

\* C5 (amended): the gates run in the order security headers, whitelist,
\* load-shedding, body limit, rate limiter, timeout; only cors() and the
\* security headers run before the whitelist; a gate that ends the request
\* stops the rest.
C5_GateOrder ==
    (app = "server" /\ pc # "idle") =>
        /\ InOrder(ActualOrder)
        /\ \A i \in 1..Len(ran) :
              ran[i] = "whitelist" => SubSeq(ran, 1, i - 1) = <<"cors", "securityHeaders">>
        /\ \A i \in 1..Len(ran) :
              ran[i] \notin {"cors", "securityHeaders", "whitelist"} => InRan("whitelist")
        /\ HaltingGateIsLast

\* a request went through every gate and reached its handler
C5_Witness ==
    /\ app = "server" /\ pc = "done"
    /\ Len(ran) >= 8
    /\ SubSeq(ran, 1, 8) = <<"cors", "securityHeaders", "whitelist", "toobusy",
                             "bodyParser", "limiter", "timeout", "haltOnTimedout">>
    /\ local.handler = "presentacion"
    /\ Answered(200, "json")

OnlyWhitespace(v) == \A i \in 1..Len(v) : CharAt(v, i) \in Whitespace

FirstRows == local.results[1].rows
FoundService == Len(local.results) >= 1 /\ local.results[1].ok /\ FirstRows # <<>>

SecondQueryRule ==
    /\ Len(dbCalls) = 2 <=> FoundService
    /\ Len(dbCalls) = 2 =>
          dbCalls[2] = Query("lineasByServicio", << FirstRows[1].id >>)

\* C10 (as claimed): GET /api/get-service/:nombre issues the product-lines
\* query iff the first query returned a row, after it resolved and keyed by
\* the first row's id; with zero rows it answers 404 'Service not found';
\* otherwise it answers one object with the fields service and productLines.
C10_ServiceOrNotFound ==
    local.handler = "service" =>
        /\ SecondQueryRule
        /\ (pc = "done" /\ local.results[1].ok /\ FirstRows = <<>>) =>
              AnsweredError(404, "Service not found") /\ Len(dbCalls) = 1
        /\ (pc = "done" /\ FoundService) =>
              /\ Answered(200, "json")
              /\ sent[1].body.json = "object"
              /\ DOMAIN sent[1].body.val = {"service", "productLines"}

\* C10 (amended): as claimed, except that the object is the answer only when
\* both queries succeed; when either query fails the handler answers 500
\* 'Database error.', and when the timeout answered first nothing more is
\* written.
C10_ServiceNotFoundOrError ==
    local.handler = "service" =>
        /\ SecondQueryRule
        /\ pc = "done" =>
              IF timedout
              THEN AnsweredError(500, "Internal server error.")
              ELSE IF \E i \in 1..Len(local.results) : ~local.results[i].ok
              THEN AnsweredError(500, "Database error.")
              ELSE IF FirstRows = <<>>
              THEN AnsweredError(404, "Service not found") /\ Len(dbCalls) = 1
              ELSE /\ Answered(200, "json")
                   /\ sent[1].body =
                          JsonObject([service |-> FirstRows[1],
                                      productLines |-> local.results[2].rows])

\* the name matched two services: the lines of the first one are returned
C10_Witness ==
    /\ pc = "done" /\ local.handler = "service"
    /\ Len(local.results) = 2 /\ Len(FirstRows) = 2
    /\ Answered(200, "json")
    /\ Len(sent[1].body.val.productLines) = 2

----------------------------------------------------------------------------
(* Error handling: claims *)

AQueryFailed == \E i \in 1..Len(local.results) : ~local.results[i].ok

\* C11 (as claimed): when a query of a route handler fails, the handler
\* answers 500 with the JSON object {error: <its fixed message>} whatever the
\* database error was, and no exception or rejection leaves the handler.
C11_QueryFailureAnswered500 ==
    (pc = "done" /\ AQueryFailed) =>
        /\ AnsweredError(500, CatchMessage(local.handler))
        /\ ~unhandled

\* C12 (as claimed): a body above the size cap is refused by the body parser
\* with a 413 or another 4xx status, and no route handler runs and no query
\* is issued for the request.
C12_OversizedBodyRefused4xx ==
    (pc = "done" /\ InRan("bodyParser") /\ TooLarge(req.body)) =>
        /\ Len(sent) = 1
        /\ sent[1].status \in 400..499
        /\ local.handler = "none"
        /\ dbCalls = <<>>

ErrorMessages ==
    {"Server is too busy. Please try again later.",
     "Request timed out. Please try again.",
     "Invalid query.", "Service not found", "Noticia no encontrada",
     "Database error.", "Error al obtener los eventos",
     "Error al obtener la noticia", "Internal server error."}

\* a JSON object with the single field error, holding one of the fixed strings
IsErrorObject(resp) ==
    /\ resp.type = "json"
    /\ resp.body.json = "object"
    /\ DOMAIN resp.body.val = {"error"}
    /\ resp.body.val.error \in ErrorMessages

ErrorResponses == {i \in 1..Len(sent) : sent[i].status >= 400}

\* C13 (as claimed): every error response is a JSON object with the single
\* string field error, except the whitelist's 403, which is plain text.
C13_EveryErrorIsJson ==
    app = "server" =>
      \A i \in ErrorResponses :
        IF sent[i].status = 403
        THEN sent[i].type = "text"
        ELSE IsErrorObject(sent[i])

\* C13 (amended): the error responses written by the server's own gates,
\* route handlers and error handler (503, 408, 400, a handler's 404, 500)
\* are JSON objects with the single string field error; the whitelist's 403
\* and the rate limiter's 429 are plain text, and the 404 for a request no
\* route matches is the HTML page of Express.
C13_ErrorFormats ==
    \A i \in ErrorResponses :
        IF sent[i].status = 403
        THEN sent[i].type = "text" /\ sent[i].body = "Access Forbidden"
        ELSE IF sent[i].status = 429
        THEN sent[i].type = "text" /\ sent[i].body = LimiterMessage
        ELSE IF sent[i].status = 404 /\ local.handler = "none"
        THEN sent[i].type = "html"
        ELSE IsErrorObject(sent[i])

\* a handler answered 404 with its JSON error object
C13_Witness ==
    /\ pc = "done" /\ local.handler = "noticia"
    /\ AnsweredError(404, "Noticia no encontrada")

\* C14 (as claimed): after the timeout answered a request, the late write of
\* the route handler raises no uncaught exception and no unhandled rejection.
C14_LateWriteHarmless ==
    timedout => ~unhandled

----------------------------------------------------------------------------
(* Repeated requests, the news handler and the gates: claims *)

\* a GET request with a route handler was sent twice in a row by one client
RepeatedGet ==
    /\ pc = "done" /\ prev # <<>>
    /\ req.method = "GET"
    /\ RouteOf(app, "GET", req.path) # "none"

SameAnswer ==
    /\ sent[1].status = prev[1].status
    /\ sent[1].body = prev[1].body

BothStatusesOutside(statuses) ==
    sent[1].status \notin statuses /\ prev[1].status \notin statuses

NoticiaQuery ==
    Query("noticiaById", << ParamOf(req.path, "/api/get-noticia/") >>)

NoticiaAnswer ==
    IF FirstRows # <<>>
    THEN Answered(200, "json") /\ sent[1].body = JsonObject(FirstRows[1])
    ELSE AnsweredError(404, "Noticia no encontrada")

BusyAnswer == AnsweredError(503, "Server is too busy. Please try again later.")

\* C17 (as claimed): a request that meets the load-shedding gate while the
\* lag is above 100 ms is answered 503 with a JSON error there.
C17_OverloadedAlways503 ==
    (InRan("toobusy") /\ local.lag > MAX_LAG) =>
        /\ pc = "done"
        /\ Last(ran) = "toobusy"
        /\ BusyAnswer

\* C17 (amended): the gate answers 503 with a JSON error, and nothing runs
\* after it, only when the lag is above 100 ms, and always when the lag is
\* at least twice that; between the two it lets a share of the requests
\* pass. A request that passes goes on unchanged.
C17_ShedOnlyAboveThreshold ==
    [][ /\ (pc = "toobusy" /\ pc' # pc) =>
              /\ local'.lag >= 2 * MAX_LAG => pc' = "done"
              /\ local'.lag <= MAX_LAG => pc' # "done"
              /\ IF pc' = "done"
                 THEN /\ local'.lag > MAX_LAG
                      /\ ran' = Append(ran, "toobusy")
                      /\ Len(sent') = 1
                      /\ sent'[1].status = 503
                      /\ IsErrorObject(sent'[1])
                      /\ dbCalls' = <<>> /\ local'.handler = "none"
                 ELSE /\ pc' = "bodyParser"
                      /\ UNCHANGED <<req, hdrs, sent, dbCalls, hits, seen,
                                     timedout, timer>>
        /\ (pc = "done" /\ Last(ran) = "toobusy") =>
              (ran' = ran \/ ran' = <<>>) ]_vars

\* a request was shed at a lag between the threshold and twice the threshold
C17_Witness ==
    /\ pc = "done" /\ Last(ran) = "toobusy"
    /\ local.lag = 150
    /\ BusyAnswer

SecurityHeaderNames == {"X-Frame-Options", "Content-Security-Policy"}

NeverEndsRequest(g) ==
    (ran # <<>> /\ Last(ran) = g) => (pc = After(g) /\ sent = <<>>)

\* C18 (as claimed): in server.js the security headers gate never ends a
\* request, and every response carries X-Frame-Options and
\* Content-Security-Policy.
C18_EveryResponseHasSecurityHeaders ==
    app = "server" =>
        /\ NeverEndsRequest("securityHeaders")
        /\ \A i \in 1..Len(sent) : SecurityHeaderNames \subseteq sent[i].headers

\* C18 (amended): every response carries the two headers except the 204
\* with which cors() answers an OPTIONS request before the gate runs.
C18_ResponsesAfterGateHaveSecurityHeaders ==
    app = "server" =>
        /\ NeverEndsRequest("securityHeaders")
        /\ \A i \in 1..Len(sent) :
              IF req.method = "OPTIONS"
              THEN sent[i].status = 204 /\ ran = <<"cors">>
              ELSE SecurityHeaderNames \subseteq sent[i].headers

\* a request refused by the rate limiter carries the headers
C18_Witness ==
    /\ app = "server" /\ pc = "done"
    /\ Answered(429, "text")
    /\ SecurityHeaderNames \subseteq sent[1].headers

OutsideApi(path) == path # "/api" /\ ~StartsWith(path, "/api/")

SensitivePaths == {"/package.json", "/server.js"}

NeverServedAsFile ==
    /\ ~InRan("static") \/ req.path = "/js/../server.js"
    /\ \A i \in 1..Len(sent) : sent[i].type # "file"

\* C20 (as claimed): in server.js /package.json and /server.js match no
\* whitelist pattern, every request for them is answered 403, and the static
\* file server never serves them.
C20_SensitivePathsForbidden ==
    (app = "server" /\ req.path \in SensitivePaths) =>
        /\ ~IsAllowed(req.path)
        /\ NeverServedAsFile
        /\ pc = "done" => Answered(403, "text")

\* C20 (amended): the same, except that an OPTIONS request for them is
\* answered 204 without a body by cors(); the file server does not serve
\* /server.js through the path /js/../server.js either.
C20_SensitivePathsNeverServed ==
    (app = "server" /\ req.path \in SensitivePaths \cup {"/js/../server.js"}) =>
        /\ req.path \in SensitivePaths => ~IsAllowed(req.path)
        /\ NeverServedAsFile
        /\ (pc = "done" /\ req.path \in SensitivePaths) =>
              IF req.method = "OPTIONS"
              THEN Answered(204, "empty")
              ELSE Answered(403, "text") /\ Last(ran) = "whitelist"

C20_Witness ==
    /\ app = "server" /\ pc = "done"
    /\ req.method = "GET" /\ req.path = "/package.json"
    /\ Answered(403, "text")
    /\ ~InRan("static")

----------------------------------------------------------------------------
(* The error handler, the limiter's window and single responses: claims *)

\* an error was passed to the pipeline: the timeout's, the body parser's, or
\* the exception of the configuration handler
ErrorRaised ==
    \/ timedout
    \/ InRan("bodyParser") /\ TooLarge(req.body)
    \/ local.handler = "config" /\ ~req.host

C22_WindowResetAdmitsAgain ==
    [][ /\ (pc' = pc /\ hits' # hits) => hits' = EmptyMap
        /\ (pc = "limiter" /\ pc' # pc /\ ~OutsideApi(req.path)
              /\ ~MapHas(hits, req.ip)) =>
              /\ pc' = After("limiter")
              /\ hits'[req.ip] = 1
              /\ sent' = <<>>
        /\ (pc = "limiter" /\ pc' # pc) =>
              \A ip \in ClientIps \ {req.ip} : Count(hits', ip) = Count(hits, ip)
      ]_vars

\* a request refused with 429 was repeated after the window and served
C22_Witness ==
    /\ RepeatedGet
    /\ prev[1].status = 429
    /\ sent[1].status = 200
    /\ Count(hits, req.ip) = 1

EarlyGates == {"cors", "securityHeaders", "whitelist", "toobusy"}

\* C27: in server.js a request ended by the whitelist (403) or by the load
\* shedding gate (503) has not met the rate limiter, and no step up to and
\* including those gates changes a rate-limit count.
C27_RefusedBeforeLimiter ==
    [][ app = "server" =>
          /\ (pc \in EarlyGates /\ pc' # pc) => (hits' = hits /\ seen' = seen)
          /\ (pc' = "done" /\ Last(ran') \in {"whitelist", "toobusy"}) =>
                /\ ~(\E i \in 1..Len(ran') : ran'[i] = "limiter")
                /\ sent'[1].status \in {403, 503}
          /\ (Len(sent') = 1 /\ sent'[1].status \in {403, 503}) =>
                ~(\E i \in 1..Len(ran') : ran'[i] = "limiter")
      ]_vars

\* a client at its ceiling was shed with 503 on an API path and is still at
\* its ceiling
C27_Witness ==
    /\ app = "server" /\ pc = "done"
    /\ Last(ran) = "toobusy" /\ Answered(503, "json")
    /\ UnderApi(req.path)
    /\ Count(hits, req.ip) = RateMax

\* C28: for a request that does not time out a response is written only by
\* the step that ends the request, that step writes exactly one, and no
\* write follows it.
C28_ExactlyOneResponse ==
    [][ ~timedout' =>
          /\ (sent' # sent /\ sent' # <<>>) =>
                (sent = <<>> /\ Len(sent') = 1 /\ pc' = "done" /\ pc # "done")
          /\ (pc' = "done" /\ pc # "done") => (sent = <<>> /\ Len(sent') = 1)
          /\ ~unhandled'
      ]_vars

\* the service handler answered once after its second query failed
C28_Witness ==
    /\ pc = "done" /\ ~timedout /\ ~unhandled
    /\ local.handler = "service"
    /\ Len(local.results) = 2 /\ ~local.results[2].ok
    /\ Len(sent) = 1 /\ sent[1].status = 500

----------------------------------------------------------------------------
(* The connection trackers: frame, cap and equivalence claims *)

Opened == nextSock' # nextSock
SocketClosed == \E s \in Sockets : sock[s].st = "open" /\ sock'[s].st = "closed"

QueueOf(q, ip) == IF MapHas(q, ip) THEN q[ip] ELSE <<>>

\* the queue after a connection event: the old entries that were kept, then
\* the one new entry
GrewByOneEntry(old, new, t) ==
    /\ Len(new) >= 1 /\ Len(new) <= Len(old) + 1
    /\ new = SubSeq(Append(old, t), Len(old) + 2 - Len(new), Len(old) + 1)

\* C23: only connection and close events change the counts and the queues:
\* an HTTP request on an open connection changes none of them, a close event
\* changes no queue, and a connection event adds exactly one entry to the
\* queue of its IP and touches no other queue.
C23_TrackerMovesOnSocketEventsOnly ==
    [][ /\ (~Opened /\ ~SocketClosed) =>
              UNCHANGED <<activeConnections, requestQueue, mwActiveConnections>>
        /\ ~Opened => requestQueue' = requestQueue
        /\ Opened =>
              LET ip == ServerIp(sock'[nextSock].addr)
              IN  /\ DOMAIN requestQueue' = DOMAIN requestQueue \cup {ip}
                  /\ GrewByOneEntry(QueueOf(requestQueue, ip),
                                    requestQueue'[ip], now)
                  /\ \A k \in DOMAIN requestQueue \ {ip} :
                        requestQueue'[k] = requestQueue[k]
      ]_vars

\* two connections of one address were answered by both servers and the
\* queue of the address holds two entries
C23_Witness ==
    \E s, t \in OpenSockets :
        /\ s < t /\ sock[s].addr = sock[t].addr
        /\ sock[s].responded /\ sock[s].mwResponded
        /\ sock[t].responded
        /\ Len(requestQueue[ServerIp(sock[s].addr)]) = 2
        /\ activeConnections[ServerIp(sock[s].addr)] = 2

LiveFrom(ip) == {s \in OpenFrom(ip) : ~sock[s].destroyed}
MwLiveFrom(addr) == {s \in MwOpenFrom(addr) : ~sock[s].mwDestroyed}

\* C24: in both trackers the sockets of one IP that are open and were not
\* destroyed by the tracker never number more than the limit.
C24_LiveSocketsWithinLimit ==
    /\ \A ip \in ServerKeys : Cardinality(LiveFrom(ip)) <= MAX_CONNECTIONS_PER_IP
    /\ \A a \in RemoteAddresses : Cardinality(MwLiveFrom(a)) <= MW_MAX_CONNECTIONS

\* the stored counts stand above the limits while the live sockets are
\* exactly at the limits
C24_Witness ==
    \E a \in RemoteAddresses :
        /\ MapHas(activeConnections, ServerIp(a))
        /\ MapHas(mwActiveConnections, a)
        /\ activeConnections[ServerIp(a)] > MAX_CONNECTIONS_PER_IP
        /\ mwActiveConnections[a] > MW_MAX_CONNECTIONS
        /\ Cardinality(LiveFrom(ServerIp(a))) = MAX_CONNECTIONS_PER_IP
        /\ Cardinality(MwLiveFrom(a)) = MW_MAX_CONNECTIONS

\* C25: once every socket of an IP has closed, destroyed ones included, the
\* IP has no count entry, and a connection that arrives while no socket of
\* its IP is open is not over the connection limit.
C25_NoPermanentLockout ==
    [][ /\ \A a \in RemoteAddresses :
              /\ (\A s \in Sockets : sock'[s].st = "open" =>
                      ServerIp(sock'[s].addr) # ServerIp(a)) =>
                    ~MapHas(activeConnections', ServerIp(a))
              /\ (\A s \in Sockets : sock'[s].st = "open" =>
                      sock'[s].addr # a) =>
                    ~MapHas(mwActiveConnections', a)
        /\ Opened =>
              LET new == sock'[nextSock]
              IN  /\ OpenFrom(ServerIp(new.addr)) = {} =>
                        (~new.overCap /\ activeConnections'[ServerIp(new.addr)] = 1)
                  /\ MwOpenFrom(new.addr) = {} =>
                        (~new.mwOverCap /\ mwActiveConnections'[new.addr] = 1)
      ]_vars

\* a socket refused for the connection limit has closed, and a later socket
\* of the same address is open and was accepted by both trackers
C25_Witness ==
    \E s, t \in Connected :
        /\ s < t /\ sock[s].addr = sock[t].addr
        /\ sock[s].overCap /\ sock[s].mwOverCap /\ sock[s].st = "closed"
        /\ sock[t].st = "open"
        /\ ~sock[t].destroyed /\ ~sock[t].mwDestroyed
        /\ activeConnections[ServerIp(sock[t].addr)] = 1
        /\ mwActiveConnections[sock[t].addr] = 1

\* C29 (as claimed): after every sequence of connection and close events the
\* activeConnections maps of server.js and of middleware.js are identical.
C29_IdenticalMaps ==
    activeConnections = mwActiveConnections

\* C29 (amended): the two close handlers compute the same map from the same
\* map, and the two maps hold the same counts, server.js under the key
\* '0.0.0.0' where middleware.js uses the undefined remote address.
C29_SameCountsUnderSocketKey ==
    /\ DOMAIN activeConnections =
          {ServerIp(a) : a \in DOMAIN mwActiveConnections}
    /\ \A a \in DOMAIN mwActiveConnections :
          mwActiveConnections[a] = activeConnections[ServerIp(a)]
    /\ \A ip \in DOMAIN activeConnections :
          CountDown(activeConnections, ip) = MwCountDown(activeConnections, ip)

\* one address went from two open sockets to one, the other lost its entry
C29_Witness ==
    \E s, t, u \in Connected :
        /\ sock[s].addr = sock[t].addr /\ sock[u].addr # sock[s].addr
        /\ sock[s].st = "closed" /\ sock[t].st = "open" /\ sock[u].st = "closed"
        /\ mwActiveConnections[sock[t].addr] = 1
        /\ ~MapHas(mwActiveConnections, sock[u].addr)

----------------------------------------------------------------------------
(* Shutdown and the preloader: claims *)

NoOpenConnection == \A c \in Conns : conn[c] # "open"

\* pool.end() is called only from the callback of server.close()
PoolEndedAfterServerClosed ==
    poolState # "open" => (serverClosed /\ NoOpenConnection)

\* process.exit(0) is called only from a callback of pool.end(), and with
\* no client connection open
ExitAfterPoolEnd ==
    exited => (poolState # "open" /\ NoOpenConnection)

\* C26: on SIGTERM or SIGINT the pool is ended only after the server's close
\* callback (all connections closed), the process exits only after the
\* pool's end callback and never with a client connection open, and no route
\* handler issues a query against a pool on which end() was called.
C26_ShutdownInOrder ==
    /\ PoolEndedAfterServerClosed
    /\ ExitAfterPoolEnd
    /\ ~lateQuery

Created == preloaderContainer # "undefined"
Removed == preloaderContainer = "null" /\ ~attached

\* removed 200 ms plus the fade after 'load'
RemovedAfterLoad ==
    (Created /\ loadFired /\ clock > loadAt + LOAD_DELAY_MS + FADE_MS) =>
        Removed

\* without 'load', removed after the 10 seconds plus the fade
RemovedAfterMaxTimeout ==
    (Created /\ ~loadFired /\ clock > MAX_TIMEOUT_MS + FADE_MS) => Removed

\* 'load' cancels the 10-second timer, and the container is removed at most
\* once
LoadCancelsAndSingleRemoval ==
    /\ loadFired => maxTimeout # "pending"
    /\ removals <= 1

\* C30: the preloader, once created, is removed from the DOM: 200 ms plus
\* the 500 ms fade after 'load' or, when 'load' has not fired, after the
\* 10-second timeout plus the fade; 'load' cancels the 10-second timer and
\* the container is removed at most once.
C30_PreloaderRemoved ==
    /\ RemovedAfterLoad
    /\ RemovedAfterMaxTimeout
    /\ LoadCancelsAndSingleRemoval

====
